---- MODULE Spec2Model ----
(***************************************************************************)
(* TradePod front end: the App orchestrator (mode, orb status, shared orb  *)
(* action) and the LiveInterface duplex audio session (microphone capture, *)
(* Live API channel, playback schedule).                                    *)
(*                                                                         *)
(* One action per event handler.  A handler runs to completion on the      *)
(* single event queue, so it is one atomic step; every `await` of the      *)
(* source splits a handler into the step before and the step after it.     *)
(* React state written by a click handler is rendered (and the effects of  *)
(* that render run) before the next event; a mode change requested by a    *)
(* network callback is rendered by a later Commit step.                    *)
(***************************************************************************)
EXTENDS Integers, Sequences, FiniteSets, TLC

\* ---------------------------------------------------------------- bounds
\* The session lifecycle, the playback schedule and the orb action are explored
\* by five specifications (Spec, SpecMute, SpecPlay, SpecQueue, SpecOrb), each
\* with its own bounds.
SessionAttempts == 2  \* startSession calls explored by Spec
PlayAttempts == 2     \* startSession calls explored by SpecPlay
PlayMsgs == 2         \* inbound audio payloads explored by SpecPlay
PlayClock == 2        \* output AudioContext.currentTime explored by SpecPlay
MaxDur == 2           \* longest decoded buffer of SpecPlay (time units)
QueueAttempts == 1    \* startSession calls explored by SpecQueue
QueueMsgs == 2        \* inbound audio payloads explored by SpecQueue
QueueClock == 1       \* output AudioContext.currentTime explored by SpecQueue
QueueDur == 1         \* longest decoded buffer of SpecQueue (time units)
MuteAttempts == 2     \* startSession calls explored by SpecMute
OrbStarts == 1        \* sessions and recognitions started, together, in SpecOrb
ErrSpeech == 2        \* playTextAsAudio calls explored by SpecErr
ErrRecog == 1         \* SpeechRecognition objects explored by SpecErr
VoiceStarts == 1      \* SpeechRecognition objects explored by SpecVoice
MaxSegs == 2          \* longest transcript, in segments
FaultAttempts == 2    \* startSession calls explored by SpecFault
ChatSends == 2        \* sendMessage calls explored by SpecChat
ChatClock == 2        \* milliseconds that pass in SpecChat
MaxChunks == 1        \* longest response stream, in chunks with text

Max(a, b) == IF a >= b THEN a ELSE b

Attempts ==
    1..Max(Max(Max(SessionAttempts, MuteAttempts), FaultAttempts),
           Max(Max(PlayAttempts, QueueAttempts), OrbStarts))
MsgIds == 1..Max(PlayMsgs, QueueMsgs)
RecogIds == 1..Max(Max(OrbStarts, ErrRecog), VoiceStarts)
SpeechIds == 1..ErrSpeech
\* chat entries with a read-aloud button: the greeting, id '1'
ReadIds == {1}
SendIds == 1..ChatSends
\* samples are the fractions k / SampleGrid
SampleGrid == 100
\* Date.now() when the app is loaded: any value other than the greeting's id
Loaded == 10

\* A transcript is a sequence of segments, spoken one after the other.  The
\* segments: command phrases as the recogniser may capitalise them, and
\* ordinary words.
Segs ==
    {"Switch To Live", "enable live mode", "create image", "Upload Plan", "open chat",
     "what is AS/NZS 3604", "please"}
Transcripts == UNION {[1..n -> Segs] : n \in 1..MaxSegs}

\* ---------------------------------------------------------------- values
AppMode == {"CHAT", "LIVE", "IMAGE_GEN"}
ToolArgs == AppMode \cup {"OTHER"}
OrbStates == {"idle", "listening", "speaking", "thinking", "connected", "error"}
\* error texts: of the channel's onerror, and thrown inside startSession
LiveRawErrors ==
    {"403", "PERMISSION_DENIED", "The caller does not have permission",
     "Requested entity was not found", "429", "RESOURCE_EXHAUSTED", "503", "UNAVAILABLE",
     "other"}
\* the message of a NotAllowedError worded as the WebIDL error table words it
DeniedByUserAgent ==
    "The request is not allowed by the user agent or the platform in the current context, possibly because the user denied permission."
\* e.message of a DOMException does not hold its name: a NotAllowedError says
\* "Permission denied" or DeniedByUserAgent, a NotFoundError "Requested device
\* not found" or "The object can not be found here."
MicRawErrors ==
    {"NotAllowedError", "Permission denied", DeniedByUserAgent,
     "NotFoundError", "Requested device not found", "The object can not be found here.",
     "403", "other"}
\* the ones the lifecycle specifications feed in: one that invalidates the API
\* key and one that does not
SomeLiveErrors == {"403"}
SomeMicErrors == {"NotAllowedError"}

VARIABLES
    \* App
    mode,            \* useState mode (latest value set)
    mounted,         \* which mode component is rendered; "NONE" = key screen
    orbState,
    errorMsg,        \* "null" or the message shown in the toast
    apiKeyVerified,
    actionRef,       \* actionRef.current: "noop" or the registered handler
    timers,          \* pending handleError setTimeout callbacks
    \* LiveInterface (the mounted instance)
    isConnected,
    isMuted,
    inputCtx,        \* inputAudioContextRef.current # null
    outputCtx,       \* outputAudioContextRef.current # null
    streamRef,       \* attempt whose MediaStream streamRef holds, 0 = null
    procRef,         \* attempt whose processor scriptProcessorRef holds
    sessRef,         \* attempt whose connect promise sessionPromiseRef holds
    nextStartTime,   \* nextStartTimeRef.current
    sources,         \* sourcesRef.current: ids of scheduled source nodes
    \* ChatInterface / ImageGenInterface dictation (the mounted instance)
    recognitionRef,  \* recognition object recognitionRef holds, 0 = null
    input,           \* ChatInterface text input: the transcripts appended to it
    prompt,          \* ImageGenInterface prompt: <<>> or the transcript set
    isMicActive,     \* isMicActive (Chat) / isListening (Visualizer)
    \* ChatInterface read-aloud (the mounted instance)
    playingMessageId, \* 0 = null
    isAudioLoading,
    currentSourceRef, \* read-aloud whose source currentSourceRef holds, 0 = null
    \* ChatInterface transcript (the mounted instance)
    messages,        \* the entries, in order
    isLoading,
    selectedFile,    \* selectedFile # null
    autoSpeak,
    \* environment
    send,            \* every sendMessage call that passed its guard
    nSend,
    now,             \* Date.now()
    pcm,             \* one sample on its way through the codec
    recog,           \* every SpeechRecognition object created so far
    nRecog,
    speech,          \* every playTextAsAudio call made so far
    nSpeech,
    clock,           \* currentTime of the current output AudioContext
    att,             \* every startSession call made so far
    nAtt,
    msgs,            \* every inbound audio payload so far
    nMsg,
    \* observation (written, never read, by the handlers)
    sched,           \* sources scheduled since the last start / flush / stop
    epoch,           \* what began the current schedule: init/restart/flush/stop
    sinceStop,       \* stopSession has returned and startSession not yet called
    dismissed,       \* pending timers of errors the user has dismissed
    \* observation of the step just taken (reset by every other step)
    lastTick,        \* outcome of an onaudioprocess tick
    invoked,         \* what an orb tap invoked
    switchReq,       \* resources held when a tool call asked to switch mode
    lastSched,       \* where a decoded buffer was scheduled
    errObs,          \* an error reported, dismissed or expired, and the status then
    heard            \* a transcript delivered, and what its handler did with it

vars == <<mode, mounted, orbState, errorMsg, apiKeyVerified, actionRef, timers,
          isConnected, isMuted, inputCtx, outputCtx, streamRef, procRef, sessRef,
          nextStartTime, sources, recognitionRef, isMicActive,
          playingMessageId, isAudioLoading, currentSourceRef, recog, nRecog,
          speech, nSpeech, clock, att, nAtt, msgs, nMsg,
          sched, epoch, sinceStop, dismissed,
          input, prompt,
          messages, isLoading, selectedFile, autoSpeak, send, nSend, now, pcm,
          lastTick, invoked, switchReq, lastSched, errObs, heard>>

\* The state as one record, so that a handler is a function from state to state
\* and a handler that calls another is a composition.
St ==
    [mode |-> mode, mounted |-> mounted, orbState |-> orbState, errorMsg |-> errorMsg,
     apiKeyVerified |-> apiKeyVerified, actionRef |-> actionRef, timers |-> timers,
     isConnected |-> isConnected, isMuted |-> isMuted, inputCtx |-> inputCtx,
     outputCtx |-> outputCtx, streamRef |-> streamRef, procRef |-> procRef,
     sessRef |-> sessRef, nextStartTime |-> nextStartTime, sources |-> sources,
     recognitionRef |-> recognitionRef, isMicActive |-> isMicActive,
     playingMessageId |-> playingMessageId, isAudioLoading |-> isAudioLoading,
     currentSourceRef |-> currentSourceRef,
     recog |-> recog, nRecog |-> nRecog, speech |-> speech, nSpeech |-> nSpeech,
     clock |-> clock, att |-> att, nAtt |-> nAtt, msgs |-> msgs, nMsg |-> nMsg,
     sched |-> sched, epoch |-> epoch, sinceStop |-> sinceStop,
     dismissed |-> dismissed, lastTick |-> lastTick,
     invoked |-> invoked, switchReq |-> switchReq, lastSched |-> lastSched,
     errObs |-> errObs, input |-> input, prompt |-> prompt, heard |-> heard,
     messages |-> messages, isLoading |-> isLoading, selectedFile |-> selectedFile,
     autoSpeak |-> autoSpeak, send |-> send, nSend |-> nSend, now |-> now,
     pcm |-> pcm]

Becomes(S) ==
    /\ mode' = S.mode /\ mounted' = S.mounted /\ orbState' = S.orbState
    /\ errorMsg' = S.errorMsg /\ apiKeyVerified' = S.apiKeyVerified
    /\ actionRef' = S.actionRef /\ timers' = S.timers
    /\ isConnected' = S.isConnected /\ isMuted' = S.isMuted
    /\ inputCtx' = S.inputCtx /\ outputCtx' = S.outputCtx
    /\ streamRef' = S.streamRef /\ procRef' = S.procRef /\ sessRef' = S.sessRef
    /\ nextStartTime' = S.nextStartTime /\ sources' = S.sources
    /\ recognitionRef' = S.recognitionRef /\ isMicActive' = S.isMicActive
    /\ playingMessageId' = S.playingMessageId /\ isAudioLoading' = S.isAudioLoading
    /\ currentSourceRef' = S.currentSourceRef
    /\ recog' = S.recog /\ nRecog' = S.nRecog
    /\ speech' = S.speech /\ nSpeech' = S.nSpeech
    /\ clock' = S.clock /\ att' = S.att /\ nAtt' = S.nAtt
    /\ msgs' = S.msgs /\ nMsg' = S.nMsg
    /\ sched' = S.sched /\ epoch' = S.epoch /\ sinceStop' = S.sinceStop
    /\ lastTick' = S.lastTick /\ invoked' = S.invoked /\ switchReq' = S.switchReq
    /\ lastSched' = S.lastSched
    /\ dismissed' = S.dismissed /\ errObs' = S.errObs
    /\ input' = S.input /\ prompt' = S.prompt /\ heard' = S.heard
    /\ messages' = S.messages /\ isLoading' = S.isLoading
    /\ selectedFile' = S.selectedFile /\ autoSpeak' = S.autoSpeak
    /\ send' = S.send /\ nSend' = S.nSend /\ now' = S.now
    /\ pcm' = S.pcm

\* One startSession call: where its async body stands and what it acquired.
\*   pc: gum = awaiting getUserMedia, connecting = ai.live.connect pending,
\*       open = session resolved, closing = close() called or socket failed,
\*       closed = onclose delivered, failed = the catch block ran
\*   stale: the LiveInterface instance that made the call is unmounted
\*   queued: frames wait on the connect promise for the session to resolve
\*   lateFrame (observation): a frame was sent on the channel after stopSession
\*       had been called for it
NoAttempt ==
    [pc |-> "unused", stale |-> FALSE, stream |-> FALSE, proc |-> FALSE,
     mutedAtStart |-> FALSE, closeReq |-> FALSE, stopped |-> FALSE,
     queued |-> FALSE, lateFrame |-> FALSE]

\* One inbound audio payload: decoding -> live (scheduled) -> stopped | done.
\*   cut: what happened while it was decoding (an interruption flush, a stop)
NoMsg == [st |-> "none", stale |-> FALSE, dur |-> 0, start |-> 0, cut |-> "no"]

\* One SpeechRecognition object: starting -> on -> ending -> ended; heard =
\* its result was delivered, its end is to come.
NoRecog == [st |-> "unused", owner |-> "CHAT", stale |-> FALSE]

\* One playTextAsAudio call: synth = awaiting generateSpeech, decode = awaiting
\* decodeAudioData, playing = source started, stopped = stop() called on the
\* source and its 'ended' event not yet delivered, done.
NoSpeech == [pc |-> "unused", stale |-> FALSE]

\* One sendMessage call: reading = awaiting the FileReader, request = awaiting
\* generateChatResponseStream, streaming = in the for-await loop, done, failed
\* = the catch block ran, stuck = awaiting a promise that nothing settles.
\*   file, autoSpeak, playing, loading: selectedFile, autoSpeak,
\*   playingMessageId and isAudioLoading of the render that made the call
\*   fullText: the chunks received; modelMsgId: 0 until the stream is open
NoSend ==
    [pc |-> "unused", stale |-> FALSE, file |-> FALSE, autoSpeak |-> FALSE,
     playing |-> 0, loading |-> FALSE, modelMsgId |-> 0, fullText |-> <<>>]

\* A sample in the codec: x = num / SampleGrid as captured (raw), int16 its
\* encoding (encoded), y = int16 / 32768 the sample played (decoded).
NoSample == [st |-> "none", num |-> 0, int16 |-> 0, y |-> [num |-> 0, den |-> 1]]

\* The transcript of a ChatInterface that has just mounted.
Greeting == <<[id |-> 1, role |-> "model", text |-> <<"Kia ora.">>, meta |-> FALSE]>>

\* ev: reported (by handleError), dismissed (by an orb tap), expired (a timer)
\* orb, msg: the status when handleError returned; before the timer fired
\* late: the timer that fired belonged to an error dismissed earlier
NoErrObs == [ev |-> "none", orb |-> "idle", msg |-> "null", late |-> FALSE]

\* t: the transcript delivered; owner, stale: the component whose onresult ran,
\* unmounted or not; did: the commands performed, in order; passed: what was
\* handed to setInput or setPrompt
NoHeard ==
    [ev |-> FALSE, owner |-> "CHAT", stale |-> FALSE, t |-> <<>>, did |-> <<>>,
     passed |-> <<>>]

NoTick == [ticked |-> FALSE, muted |-> FALSE, session |-> FALSE, forwarded |-> FALSE]
NoInvoke == [h |-> "none", mode |-> "CHAT", registered |-> TRUE]
NoSwitchReq == [issued |-> FALSE, micHeld |-> FALSE, playing |-> FALSE]
NoSched == [scheduled |-> FALSE, start |-> 0, at |-> 0, first |-> FALSE, epoch |-> "init", cut |-> "no"]

\* The state a handler starts from: the program state, nothing observed yet.
Cur ==
    [St EXCEPT !.lastTick = NoTick, !.invoked = NoInvoke, !.switchReq = NoSwitchReq,
               !.lastSched = NoSched, !.errObs = NoErrObs, !.heard = NoHeard]

\* The handler each mode component registers as the orb action.
Handler(m) ==
    CASE m = "CHAT" -> "handleMicClick"
      [] m = "LIVE" -> "toggleSession"
      [] m = "IMAGE_GEN" -> "handleVoiceInput"
      [] OTHER -> "noop"

MicHeld(S) == \E a \in Attempts : S.att[a].stream
Playing(S) == \E i \in MsgIds : S.msgs[i].st = "live"

\* ------------------------------------------------------------------- App

\* The messages LiveInterface passes to onError.
MsgLiveGeneric == "Connection error with Live API."
MsgLive403 == "Access denied (403). Please check your API key and billing settings."
MsgLive429 == "Quota exceeded (429). The system is busy, please try again later."
MsgLive503 == "Service unavailable (503). The AI is momentarily overloaded."
MsgStartFailed == "Failed to start session."
MsgMicDenied == "Microphone access denied. Please allow microphone permissions in your browser."
MsgMicNotFound == "No microphone found. Please connect an audio input device."
MsgStart403 == "Access denied (403). Please reconnect your API key."
MsgOverloaded == "System overloaded. Please try again in a moment."
MsgNoAudio == "Could not play audio."
MsgNoResponse == "Failed to get response"
MsgSnag == "Sorry, I ran into a snag. Try again?"

\* msg.includes(...) of handleError, tabulated over the messages above.
IncludesAuthPattern(msg) == msg \in {MsgLive403, MsgStart403}
Includes500(msg) == FALSE

\* onerror: classification of the channel's error text.
LiveUserMsg(raw) ==
    CASE raw \in {"403", "PERMISSION_DENIED"} -> MsgLive403
      [] raw \in {"429", "RESOURCE_EXHAUSTED"} -> MsgLive429
      [] raw \in {"503", "UNAVAILABLE"} -> MsgLive503
      [] OTHER -> MsgLiveGeneric

\* catch block of startSession: classification of the thrown error's text.
\* Of the texts above only DeniedByUserAgent includes "permission" without
\* including "NotAllowedError" or "Permission denied".
StartUserMsg(raw) ==
    CASE raw \in {"NotAllowedError", "Permission denied"} -> MsgMicDenied
      [] raw = "NotFoundError" -> MsgMicNotFound
      [] raw \in {"403", DeniedByUserAgent} -> MsgStart403
      [] OTHER -> MsgStartFailed

handleError(S, err) ==
    LET s1 == IF IncludesAuthPattern(err)
              THEN [S EXCEPT !.apiKeyVerified = FALSE]
              ELSE S
        displayMsg == IF Includes500(err) THEN MsgOverloaded ELSE err
        shown == [s1 EXCEPT !.errorMsg = displayMsg, !.orbState = "error",
                            !.timers = @ + 1]
    IN [shown EXCEPT !.errObs = [ev |-> "reported", orb |-> shown.orbState,
                                 msg |-> shown.errorMsg, late |-> FALSE]]

errorTimeoutKeepMsg(S) ==
    [S EXCEPT !.orbState = "idle", !.timers = @ - 1,
              !.dismissed = IF @ > 0 THEN @ - 1 ELSE 0,
              !.errObs = [ev |-> "expired", orb |-> S.orbState, msg |-> S.errorMsg,
                          late |-> S.dismissed > 0]]

\* The setTimeout callback of handleError; timers expire in the order set.
errorTimeout(S) ==
    [S EXCEPT !.errorMsg = "null", !.orbState = "idle", !.timers = @ - 1,
              !.dismissed = IF @ > 0 THEN @ - 1 ELSE 0,
              !.errObs = [ev |-> "expired", orb |-> S.orbState, msg |-> S.errorMsg,
                          late |-> S.dismissed > 0]]

handleModeChangeNoClear(S, newMode, closureMode) ==
    IF newMode = closureMode THEN S
    ELSE [S EXCEPT !.mode = newMode, !.orbState = "idle"]

\* closureMode is the `mode` of the render whose handleModeChange is called:
\* the rendered mode for the nav buttons, LIVE for a LiveInterface callback.
handleModeChange(S, newMode, closureMode) ==
    IF newMode = closureMode THEN S
    ELSE [S EXCEPT !.mode = newMode, !.orbState = "idle", !.actionRef = "noop"]

\* ---------------------------------------------------------- LiveInterface

\* sessionPromiseRef.current.then(session => session.close()): at once when the
\* promise is resolved, on resolution when it is pending.
RequestClose(rec) ==
    CASE rec.pc = "open" -> [rec EXCEPT !.pc = "closing"]
      [] rec.pc = "connecting" -> [rec EXCEPT !.closeReq = TRUE]
      [] OTHER -> rec

\* stopSession as called by a callback whose LiveInterface instance is
\* unmounted: every ref of that instance is already null.
stopSessionStale(S) == [S EXCEPT !.orbState = "idle"]

\* sessionPromiseRef.current.then(session => session.close()), ref cleared
closeSession(S) ==
    IF S.sessRef # 0
    THEN [S EXCEPT !.att[S.sessRef] = RequestClose(@), !.sessRef = 0]
    ELSE S

\* "Stop mic stream": the tracks of streamRef.current only
stopMicStream(S) ==
    IF S.streamRef # 0
    THEN [S EXCEPT !.att[S.streamRef].stream = FALSE, !.streamRef = 0]
    ELSE S

\* "Stop audio processing": scriptProcessorRef.current is disconnected
disconnectProcessor(S) ==
    IF S.procRef # 0
    THEN [S EXCEPT !.att[S.procRef].proc = FALSE, !.procRef = 0]
    ELSE S

\* closing the input context silences every processor created on it
closeInputContext(S) ==
    IF S.inputCtx
    THEN [S EXCEPT !.inputCtx = FALSE,
                   !.att = [a \in Attempts |->
                              IF S.att[a].stale THEN S.att[a]
                              ELSE [S.att[a] EXCEPT !.proc = FALSE]]]
    ELSE S

stopOutputFirstOnly(S) ==
    LET first == IF S.sources = {} THEN {}
                 ELSE {CHOOSE i \in S.sources : \A j \in S.sources : i <= j}
    IN [S EXCEPT !.msgs = [i \in MsgIds |->
                             CASE i \in first -> [NoMsg EXCEPT !.st = "stopped"]
                               [] S.msgs[i].st = "decoding" -> [S.msgs[i] EXCEPT !.cut = "stop"]
                               [] OTHER -> S.msgs[i]],
                 !.sources = @ \ first, !.outputCtx = FALSE]

\* "Stop output": every source of sourcesRef is stopped, the set is cleared,
\* the output context is closed; a payload that is decoding is not touched
stopOutput(S) ==
    [S EXCEPT !.msgs = [i \in MsgIds |->
                          CASE i \in S.sources -> [NoMsg EXCEPT !.st = "stopped"]
                            [] S.msgs[i].st = "decoding" -> [S.msgs[i] EXCEPT !.cut = "stop"]
                            [] OTHER -> S.msgs[i]],
              !.sources = {}, !.outputCtx = FALSE]

\* setIsConnected(false); onStateChange('idle'); stopSession has returned
stopped(S) ==
    [S EXCEPT !.isConnected = FALSE, !.orbState = "idle",
              !.att = [a \in Attempts |->
                         IF S.att[a].pc = "unused" \/ S.att[a].stale THEN S.att[a]
                         ELSE [S.att[a] EXCEPT !.stopped = TRUE]],
              !.sched = <<>>, !.epoch = "stop", !.sinceStop = TRUE]

stopSession(S) ==
    stopped(stopOutput(closeInputContext(disconnectProcessor(stopMicStream(closeSession(S))))))

\* stopSession of the instance that attempt a belongs to.
StopFor(S, a) == IF S.att[a].stale THEN stopSessionStale(S) ELSE stopSession(S)

\* startSession up to `await getUserMedia`.
startSession(S) ==
    LET a == S.nAtt + 1
    IN [S EXCEPT !.orbState = "listening", !.isConnected = TRUE,
                 !.inputCtx = TRUE, !.outputCtx = TRUE, !.clock = 0,
                 !.nAtt = a,
                 !.att = IF a \in Attempts
                         THEN [@ EXCEPT ![a] = [NoAttempt EXCEPT !.pc = "gum",
                                                                 !.mutedAtStart = S.isMuted]]
                         ELSE @,
                 !.epoch = IF S.epoch = "stop" THEN "restart" ELSE S.epoch,
                 !.sinceStop = FALSE]

toggleSessionNoGuard(S) == startSession(S)

toggleSession(S) == IF S.isConnected THEN stopSession(S) ELSE startSession(S)

\* getUserMedia resolved for attempt a: the continuation of startSession up to
\* the ai.live.connect call, or its catch block when the instance was stopped
\* meanwhile (inputAudioContextRef.current is null and createGain throws).
gumResolved(S, a) ==
    LET granted == [S EXCEPT !.att[a].stream = TRUE]
    IN IF S.att[a].stale
       THEN \* the unmounted instance: streamRef = stream, throw, catch, stopSession
            [stopSessionStale(handleError(granted, StartUserMsg("other")))
                EXCEPT !.att[a].stream = FALSE, !.att[a].pc = "failed"]
       ELSE LET s1 == [granted EXCEPT !.streamRef = a]
            IN IF ~s1.inputCtx
               THEN [stopSession(handleError(s1, StartUserMsg("other")))
                        EXCEPT !.att[a].pc = "failed"]
               ELSE [s1 EXCEPT !.att[a].proc = TRUE, !.procRef = a,
                               !.sessRef = a, !.att[a].pc = "connecting"]

\* getUserMedia rejected: the catch block.
gumRejected(S, a, raw) ==
    [StopFor(handleError(S, StartUserMsg(raw)), a) EXCEPT !.att[a].pc = "failed"]

\* The promise of ai.live.connect rejects.  startSession did not await it, so
\* its catch block does not run; the reactions registered on the promise (the
\* frames' sendRealtimeInput, stopSession's close) never run either.
connectRejected(S, a) == [S EXCEPT !.att[a].pc = "rejected"]

\* processor.onaudioprocess of attempt a.  isMuted is the value the render that
\* called startSession closed over.  The frame is handed to a reaction on
\* sessionPromiseRef.current, which runs at once when the session has resolved
\* and waits for the open otherwise.
onaudioprocess(S, a) ==
    [S EXCEPT !.lastTick = [ticked |-> TRUE, muted |-> S.isMuted,
                            session |-> S.sessRef # 0,
                            forwarded |-> ~S.att[a].mutedAtStart /\ S.sessRef # 0],
              !.att = IF /\ ~S.att[a].mutedAtStart /\ ~S.att[a].stale /\ S.sessRef # 0
                         /\ S.att[S.sessRef].pc = "connecting"
                      THEN [@ EXCEPT ![S.sessRef].queued = TRUE]
                      ELSE @]

\* callbacks.onopen, then the connect promise resolves and runs the reactions
\* registered on it in the order they were registered: the frames captured
\* while connecting are sent, then a close requested by stopSession runs.
onopen(S, a) ==
    [S EXCEPT !.orbState = "listening",
              !.att[a].pc = IF S.att[a].closeReq THEN "closing" ELSE "open",
              !.att[a].queued = FALSE,
              !.att[a].lateFrame = @ \/ (S.att[a].queued /\ S.att[a].closeReq)]

\* onSwitchMode(targetMode) as a LiveInterface callback calls it, the session
\* being torn down as far as S shows.
onSwitchMode(S, m) ==
    [handleModeChange(S, m, "LIVE")
        EXCEPT !.switchReq = [issued |-> TRUE, micHeld |-> MicHeld(S),
                              playing |-> Playing(S)]]

\* callbacks.onmessage, toolCall branch: stopSession, then onSwitchMode when
\* the argument names a mode.
onmessageToolCall(S, a, m) ==
    IF m \in AppMode THEN onSwitchMode(StopFor(S, a), m) ELSE StopFor(S, a)

\* callbacks.onmessage, audio branch up to `await decodeAudioData`.
onmessageAudio(S, a, d) ==
    IF ~S.att[a].stale /\ S.outputCtx
    THEN [S EXCEPT !.orbState = "speaking", !.nMsg = @ + 1,
                   !.msgs[S.nMsg + 1] = [NoMsg EXCEPT !.st = "decoding", !.dur = d]]
    ELSE S

scheduleAtClock(S, i) ==
    LET startAt == S.clock
    IN [S EXCEPT !.nextStartTime = startAt + S.msgs[i].dur,
                 !.sources = @ \cup {i},
                 !.msgs[i] = [@ EXCEPT !.st = "live", !.start = startAt],
                 !.sched = Append(@, [start |-> startAt, dur |-> S.msgs[i].dur]),
                 !.lastSched = [scheduled |-> TRUE, start |-> startAt, at |-> S.clock,
                                first |-> S.sched = <<>>, epoch |-> S.epoch,
                                cut |-> S.msgs[i].cut]]

\* "Sync playback": the source is started at max(nextStartTime, currentTime).
schedule(S, i) ==
    LET startAt == Max(S.nextStartTime, S.clock)
    IN [S EXCEPT !.nextStartTime = startAt + S.msgs[i].dur,
                 !.sources = @ \cup {i},
                 !.msgs[i] = [@ EXCEPT !.st = "live", !.start = startAt],
                 !.sched = Append(@, [start |-> startAt, dur |-> S.msgs[i].dur]),
                 !.lastSched = [scheduled |-> TRUE, start |-> startAt, at |-> S.clock,
                                first |-> S.sched = <<>>, epoch |-> S.epoch,
                                cut |-> S.msgs[i].cut]]

\* callbacks.onmessage, audio branch after the await: outputAudioContextRef.current
\* is read again; when it is null the TypeError lands in the inner catch.
decoded(S, i, ok) ==
    IF ok /\ ~S.msgs[i].stale /\ S.outputCtx
    THEN schedule(S, i)
    ELSE [S EXCEPT !.msgs[i] = [NoMsg EXCEPT !.st = "done"]]

onmessageInterruptedKeepTime(S, a) ==
    IF S.att[a].stale
    THEN [S EXCEPT !.orbState = "listening"]
    ELSE [S EXCEPT !.msgs = [i \in MsgIds |->
                               CASE i \in S.sources -> [NoMsg EXCEPT !.st = "stopped"]
                                 [] S.msgs[i].st = "decoding" /\ S.msgs[i].cut = "no" ->
                                      [S.msgs[i] EXCEPT !.cut = "flush"]
                                 [] OTHER -> S.msgs[i]],
                   !.sources = {}, !.orbState = "listening",
                   !.sched = <<>>, !.epoch = "flush"]

\* callbacks.onmessage, interrupted branch.
onmessageInterrupted(S, a) ==
    IF S.att[a].stale
    THEN [S EXCEPT !.orbState = "listening"]
    ELSE [S EXCEPT !.msgs = [i \in MsgIds |->
                               CASE i \in S.sources -> [NoMsg EXCEPT !.st = "stopped"]
                                 [] S.msgs[i].st = "decoding" /\ S.msgs[i].cut = "no" ->
                                      [S.msgs[i] EXCEPT !.cut = "flush"]
                                 [] OTHER -> S.msgs[i]],
                   !.sources = {}, !.nextStartTime = 0, !.orbState = "listening",
                   !.sched = <<>>, !.epoch = "flush"]

\* 'ended' listener of source i (natural end, or after stop()).
onended(S, i) ==
    LET stale == S.msgs[i].stale
        left == IF stale THEN {} ELSE S.sources \ {i}
        s1 == IF stale THEN S ELSE [S EXCEPT !.sources = left]
        s2 == IF left = {} THEN [s1 EXCEPT !.orbState = "listening"] ELSE s1
    IN [s2 EXCEPT !.msgs[i] = [NoMsg EXCEPT !.st = "done"]]

\* callbacks.onclose.
onclose(S, a) == [StopFor(S, a) EXCEPT !.att[a].pc = "closed"]

\* callbacks.onerror; the failed socket then only delivers its close event.
onerror(S, a, raw) ==
    [StopFor(handleError(S, LiveUserMsg(raw)), a) EXCEPT !.att[a].pc = "closing"]

\* ------------------------------------------- dictation (Chat, Visualizer)

\* handleMicClick of ChatInterface and handleVoiceInput of ImageGenInterface:
\* stop the running recognition, or create and start a new one.
startDictation(S, owner) ==
    IF S.recognitionRef # 0 /\ S.isMicActive
    THEN [S EXCEPT !.recog[S.recognitionRef].st = IF @ = "heard" THEN @ ELSE "ending"]
    ELSE LET r == S.nRecog + 1
         IN [S EXCEPT !.nRecog = r, !.recognitionRef = r,
                      !.recog = IF r \in RecogIds
                                THEN [@ EXCEPT ![r] = [st |-> "starting", owner |-> owner,
                                                       stale |-> FALSE]]
                                ELSE @]

handleMicClick(S) == startDictation(S, "CHAT")

handleVoiceInput(S) == startDictation(S, "IMAGE_GEN")

\* recognition.onstart
recognitionOnstart(S, r) ==
    LET s1 == IF S.recog[r].stale THEN S ELSE [S EXCEPT !.isMicActive = TRUE]
    IN [s1 EXCEPT !.orbState = "listening", !.recog[r].st = "on"]

\* recognition.onerror; the recognition then ends.
recognitionOnerror(S, r) ==
    LET s1 == IF S.recog[r].stale THEN S ELSE [S EXCEPT !.isMicActive = FALSE]
    IN [s1 EXCEPT !.orbState = "idle", !.recog[r].st = "ending"]

\* recognition.onend; only ChatInterface also clears recognitionRef.
recognitionOnend(S, r) ==
    LET s1 == IF S.recog[r].stale THEN S
              ELSE [S EXCEPT !.isMicActive = FALSE,
                             !.recognitionRef = IF S.recog[r].owner = "CHAT" THEN 0 ELSE @]
    IN [s1 EXCEPT !.orbState = "idle", !.recog[r].st = "ended"]

\* ---------------------------------------------------- voice commands

\* String.prototype.toLowerCase, segment by segment.
ToLowerCase(text) ==
    [i \in 1..Len(text) |->
        CASE text[i] = "Switch To Live" -> "switch to live"
          [] text[i] = "Upload Plan" -> "upload plan"
          [] text[i] = "what is AS/NZS 3604" -> "what is as/nzs 3604"
          [] OTHER -> text[i]]

\* lower.includes(p) for some p of phrases: a phrase lies within one segment;
\* of the segments only 'enable live mode' has another phrase as a substring.
IncludesAny(lower, phrases) ==
    \E i \in 1..Len(lower) :
        \/ lower[i] \in phrases
        \/ lower[i] = "enable live mode" /\ "live mode" \in phrases

\* onSwitchMode(m) called by the recognition handler of a component that was
\* rendered in mode `owner`.
voiceSwitch(S, m, owner) ==
    [handleModeChange(S, m, owner) EXCEPT !.heard.did = Append(@, m)]

checkVoiceCommandsVisualizerFirst(S, text, r) ==
    LET lower == ToLowerCase(text)
    IN IF IncludesAny(lower, {"switch to visualizer", "open visualizer", "create image"})
       THEN voiceSwitch(S, "IMAGE_GEN", "CHAT")
       ELSE IF IncludesAny(lower, {"switch to live", "open live", "enable live mode"})
       THEN voiceSwitch(S, "LIVE", "CHAT")
       ELSE IF /\ IncludesAny(lower, {"upload plan", "attach plan", "upload file", "add pdf",
                                      "upload pdf", "scan plan", "import plan"})
               /\ ~S.recog[r].stale
       THEN [S EXCEPT !.heard.did = Append(@, "picker")]
       ELSE S

\* checkVoiceCommands of the ChatInterface instance that created recognition
\* r; it returned true iff heard.did is no longer empty.  fileInputRef.current
\* is null once that instance is unmounted.
checkVoiceCommands(S, text, r) ==
    LET lower == ToLowerCase(text)
    IN IF IncludesAny(lower, {"switch to live", "open live", "enable live mode"})
       THEN voiceSwitch(S, "LIVE", "CHAT")
       ELSE IF IncludesAny(lower, {"switch to visualizer", "open visualizer", "create image"})
       THEN voiceSwitch(S, "IMAGE_GEN", "CHAT")
       ELSE IF /\ IncludesAny(lower, {"upload plan", "attach plan", "upload file", "add pdf",
                                      "upload pdf", "scan plan", "import plan"})
               /\ ~S.recog[r].stale
       THEN [S EXCEPT !.heard.did = Append(@, "picker")]
       ELSE S

\* The transcript of recognition r has arrived; the recognition ends next.
delivered(S, r, transcript) ==
    [S EXCEPT !.heard = [NoHeard EXCEPT !.ev = TRUE, !.owner = S.recog[r].owner,
                                        !.stale = S.recog[r].stale, !.t = transcript],
              !.recog[r].st = "heard"]

\* recognition.onresult of ChatInterface; setInput of an unmounted instance
\* does nothing.
recognitionOnresult(S, r, transcript) ==
    LET c == checkVoiceCommands(delivered(S, r, transcript), transcript, r)
    IN IF c.heard.did # <<>> THEN c
       ELSE [c EXCEPT !.heard.passed = Append(@, transcript),
                      !.input = IF S.recog[r].stale THEN @ ELSE Append(@, transcript)]

\* recognition.onresult of ImageGenInterface.
voiceInputOnresult(S, r, transcript) ==
    LET lower == ToLowerCase(transcript)
        s1 == delivered(S, r, transcript)
    IN IF IncludesAny(lower, {"switch to chat", "open chat", "chat mode"})
       THEN voiceSwitch(s1, "CHAT", "IMAGE_GEN")
       ELSE IF IncludesAny(lower, {"switch to live", "open live", "live mode"})
       THEN voiceSwitch(s1, "LIVE", "IMAGE_GEN")
       ELSE [s1 EXCEPT !.heard.passed = Append(@, transcript),
                       !.prompt = IF S.recog[r].stale THEN @ ELSE transcript]

\* ------------------------------------------------- read-aloud (Chat)

stopAudio(S, resetState) ==
    [S EXCEPT !.speech = IF S.currentSourceRef # 0
                         THEN [@ EXCEPT ![S.currentSourceRef].pc = "stopped"]
                         ELSE @,
              !.currentSourceRef = 0, !.playingMessageId = 0, !.isAudioLoading = FALSE,
              !.orbState = IF resetState THEN "idle" ELSE @]

\* playTextAsAudio from stopAudio(false) up to `await generateSpeech`.
requestSpeech(S, id) ==
    [S EXCEPT !.playingMessageId = id, !.isAudioLoading = TRUE, !.orbState = "thinking",
              !.nSpeech = @ + 1,
              !.speech = IF S.nSpeech + 1 \in SpeechIds
                         THEN [@ EXCEPT ![S.nSpeech + 1] = [NoSpeech EXCEPT !.pc = "synth"]]
                         ELSE @]

\* Tapping the entry that is playing stops it; otherwise it is read aloud.
playTextAsAudio(S, id) ==
    IF S.playingMessageId = id /\ ~S.isAudioLoading
    THEN stopAudio(S, TRUE)
    ELSE requestSpeech(stopAudio(S, FALSE), id)

\* The catch block of playTextAsAudio; the state setters of an unmounted
\* ChatInterface do nothing, onStateChange and onError are App's.
playbackFailed(S, k) ==
    handleError([S EXCEPT !.playingMessageId = IF S.speech[k].stale THEN @ ELSE 0,
                          !.isAudioLoading = IF S.speech[k].stale THEN @ ELSE FALSE,
                          !.orbState = "idle",
                          !.speech[k].pc = "done"],
                MsgNoAudio)

\* generateSpeech returned: audio data, or nothing / a rejection.
speechResolved(S, k, ok) ==
    IF ok THEN [S EXCEPT !.speech[k].pc = "decode"] ELSE playbackFailed(S, k)

\* decodeAudioData returned: the source is started.
audioDecoded(S, k, ok) ==
    IF ok
    THEN [S EXCEPT !.isAudioLoading = IF S.speech[k].stale THEN @ ELSE FALSE,
                   !.currentSourceRef = IF S.speech[k].stale THEN @ ELSE k,
                   !.orbState = "speaking",
                   !.speech[k].pc = "playing"]
    ELSE playbackFailed(S, k)

\* source.onended of read-aloud k (it played to its end, or stop() was called).
sourceOnended(S, k) ==
    [S EXCEPT !.playingMessageId = IF S.speech[k].stale THEN @ ELSE 0,
              !.currentSourceRef = IF S.speech[k].stale THEN @ ELSE 0,
              !.orbState = "idle",
              !.speech[k].pc = "done"]

\* ------------------------------------------------------------ AudioCodec

\* Math.round of the fraction n / d, d > 0: the nearest integer, halves up.
Round(n, d) == (2 * n + d) \div (2 * d)

\* clamp(sample, -1, 1) of the sample num / SampleGrid, as a numerator.
Clamp(num) ==
    IF num > SampleGrid THEN SampleGrid
    ELSE IF num < -SampleGrid THEN -SampleGrid
    ELSE num

\* encode: round(clamp(sample, -1, 1) * 32767), a signed 16-bit integer.
encode(num) == Round(Clamp(num) * 32767, SampleGrid)

\* decode: int / 32768, as a fraction.
decode(int16) == [num |-> int16, den |-> 32768]

\* ---------------------------------------------------- transcript (Chat)

\* String.prototype.trim over the texts the user submits.
Trim(text) == IF text = "  " THEN "" ELSE text

\* sendMessage up to its first await.
sendMessage(S, textToSend) ==
    IF (Trim(textToSend) = "" /\ ~S.selectedFile) \/ S.isLoading
    THEN S
    ELSE LET s1 == stopAudio(S, TRUE)
             userMsg == [id |-> S.now, role |-> "user", text |-> <<textToSend>>,
                         meta |-> FALSE]
             call == [NoSend EXCEPT !.pc = IF S.selectedFile THEN "reading" ELSE "request",
                                    !.file = S.selectedFile, !.autoSpeak = S.autoSpeak,
                                    !.playing = S.playingMessageId,
                                    !.loading = S.isAudioLoading]
         IN [s1 EXCEPT !.messages = Append(@, userMsg),
                       !.input = <<>>, !.isLoading = TRUE, !.orbState = "thinking",
                       !.nSend = @ + 1,
                       !.send = IF S.nSend + 1 \in SendIds
                                THEN [@ EXCEPT ![S.nSend + 1] = call]
                                ELSE @]

\* reader.onload: the attached file is read, the request is made.
fileRead(S, k) == [S EXCEPT !.send[k].pc = "request"]

\* The FileReader fires its error event: the promise has an onload handler
\* only and takes no reject function, so base64Promise is never settled and
\* sendMessage does not continue past its await.
fileReadFailed(S, k) == [S EXCEPT !.send[k].pc = "stuck"]

\* The catch block of sendMessage.
sendFailed(S, k) ==
    LET s1 == handleError(S, MsgNoResponse)
        reply == [id |-> S.now, role |-> "model", text |-> <<MsgSnag>>, meta |-> FALSE]
    IN [s1 EXCEPT !.messages = IF S.send[k].stale THEN @ ELSE Append(@, reply),
                  !.isLoading = IF S.send[k].stale THEN @ ELSE FALSE,
                  !.orbState = "idle",
                  !.send[k].pc = "failed"]

\* generateChatResponseStream returned: the empty assistant entry is appended.
streamOpened(S, k) ==
    LET initialModelMsg == [id |-> S.now + 1, role |-> "model", text |-> <<>>,
                            meta |-> FALSE]
    IN [S EXCEPT !.messages = IF S.send[k].stale THEN @ ELSE Append(@, initialModelMsg),
                 !.isLoading = IF S.send[k].stale THEN @ ELSE FALSE,
                 !.send[k].pc = "streaming",
                 !.send[k].modelMsgId = S.now + 1]

\* newMessages.find(m => m.id === id), then targetMsg.text = text.
SetText(list, id, text) ==
    LET hits == {i \in 1..Len(list) : list[i].id = id}
    IN IF hits = {} THEN list
       ELSE LET first == CHOOSE i \in hits : \A j \in hits : i <= j
            IN [list EXCEPT ![first].text = text]

\* One pass of the for-await loop, the chunk carrying text.
streamChunk(S, k) ==
    LET fullText == Append(S.send[k].fullText, "chunk")
    IN [S EXCEPT !.send[k].fullText = fullText,
                 !.messages = IF S.send[k].stale THEN @
                              ELSE SetText(@, S.send[k].modelMsgId, fullText)]

\* playTextAsAudio as sendMessage calls it: the callback of the render that
\* made the call, with that render's playingMessageId and isAudioLoading.
playTextAsAudioOf(S, k) ==
    LET id == S.send[k].modelMsgId
    IN IF S.send[k].stale
       THEN [S EXCEPT !.orbState = IF S.send[k].playing = id /\ ~S.send[k].loading
                                   THEN "idle" ELSE "thinking",
                      !.nSpeech = IF S.send[k].playing = id /\ ~S.send[k].loading
                                  THEN @ ELSE @ + 1,
                      !.speech = IF /\ ~(S.send[k].playing = id /\ ~S.send[k].loading)
                                    /\ S.nSpeech + 1 \in SpeechIds
                                 THEN [@ EXCEPT ![S.nSpeech + 1] =
                                         [pc |-> "synth", stale |-> TRUE]]
                                 ELSE @]
       ELSE IF S.send[k].playing = id /\ ~S.send[k].loading
       THEN stopAudio(S, TRUE)
       ELSE requestSpeech(stopAudio(S, FALSE), id)

\* The stream is exhausted: the grounding metadata is attached to every entry
\* with the assistant id, the answer is read aloud or the orb goes idle, the
\* attachment is cleared.
streamFinished(S, k, grounded) ==
    LET s1 == [S EXCEPT !.messages =
                          IF S.send[k].stale THEN @
                          ELSE [i \in 1..Len(@) |->
                                  IF @[i].id = S.send[k].modelMsgId
                                  THEN [@[i] EXCEPT !.meta = grounded]
                                  ELSE @[i]]]
        s2 == IF S.send[k].autoSpeak THEN playTextAsAudioOf(s1, k)
              ELSE [s1 EXCEPT !.orbState = "idle"]
    IN [s2 EXCEPT !.selectedFile = IF S.send[k].stale THEN @ ELSE FALSE,
                  !.send[k].pc = "done"]

\* ------------------------------------------------------- App, continued

handleOrbClickFallThrough(S) ==
    LET seen == [h |-> S.actionRef, mode |-> S.mode, registered |-> S.mounted = S.mode]
        s1 == IF S.orbState = "error"
              THEN [S EXCEPT !.errorMsg = "null", !.orbState = "idle",
                             !.invoked = [seen EXCEPT !.h = "dismiss"],
                             !.dismissed = S.timers,
                             !.errObs = [ev |-> "dismissed", orb |-> S.orbState,
                                         msg |-> S.errorMsg, late |-> FALSE]]
              ELSE [S EXCEPT !.invoked = seen]
    IN CASE S.actionRef = "toggleSession" -> toggleSession(s1)
         [] S.actionRef = "handleMicClick" -> handleMicClick(s1)
         [] S.actionRef = "handleVoiceInput" -> handleVoiceInput(s1)
         [] OTHER -> s1

handleOrbClick(S) ==
    LET seen == [h |-> S.actionRef, mode |-> S.mode, registered |-> S.mounted = S.mode]
    IN IF S.orbState = "error"
       THEN [S EXCEPT !.errorMsg = "null", !.orbState = "idle",
                      !.invoked = [seen EXCEPT !.h = "dismiss"],
                      !.dismissed = S.timers,
                      !.errObs = [ev |-> "dismissed", orb |-> S.orbState,
                                  msg |-> S.errorMsg, late |-> FALSE]]
       ELSE LET s1 == [S EXCEPT !.invoked = seen]
            IN CASE S.actionRef = "toggleSession" -> toggleSession(s1)
                 [] S.actionRef = "handleMicClick" -> handleMicClick(s1)
                 [] S.actionRef = "handleVoiceInput" -> handleVoiceInput(s1)
                 [] OTHER -> s1

\* What App renders: the key screen unless the key is verified.
Rendered(S) == IF S.apiKeyVerified THEN S.mode ELSE "NONE"

\* The callbacks of a LiveInterface instance that are still pending belong to
\* an unmounted instance from now on; a later instance starts with fresh state.
unmountedLive(S) ==
    [S EXCEPT !.att = [a \in Attempts |->
                         IF S.att[a].pc = "unused" THEN S.att[a]
                         ELSE [S.att[a] EXCEPT !.stale = TRUE]],
              !.msgs = [i \in MsgIds |->
                          IF S.msgs[i].st \in {"decoding", "stopped"}
                          THEN [S.msgs[i] EXCEPT !.stale = TRUE]
                          ELSE S.msgs[i]],
              !.isMuted = FALSE, !.nextStartTime = 0, !.epoch = "init"]

\* Effect cleanups of the component being unmounted.
unmount(S) ==
    CASE S.mounted = "LIVE" ->
           unmountedLive(stopSession([S EXCEPT !.actionRef = "noop"]))
      [] S.mounted \in {"CHAT", "IMAGE_GEN"} ->
           [S EXCEPT !.actionRef = "noop", !.recognitionRef = 0, !.isMicActive = FALSE,
                     !.recog = [r \in RecogIds |->
                                  IF S.recog[r].st = "unused" THEN S.recog[r]
                                  ELSE [S.recog[r] EXCEPT !.stale = TRUE]],
                     !.input = <<>>, !.prompt = <<>>,
                     !.playingMessageId = 0, !.isAudioLoading = FALSE,
                     !.currentSourceRef = 0,
                     !.speech = [k \in SpeechIds |->
                                   IF S.speech[k].pc = "unused" THEN S.speech[k]
                                   ELSE [S.speech[k] EXCEPT !.stale = TRUE]],
                     !.messages = Greeting, !.isLoading = FALSE,
                     !.selectedFile = FALSE, !.autoSpeak = TRUE,
                     !.send = [k \in SendIds |->
                                 IF S.send[k].pc = "unused" THEN S.send[k]
                                 ELSE [S.send[k] EXCEPT !.stale = TRUE]]]
      [] OTHER -> S

\* The component of t mounts and its effect registers its action.
mount(S, t) ==
    [S EXCEPT !.mounted = t, !.actionRef = IF t = "NONE" THEN @ ELSE Handler(t)]

\* The render that follows a change of mode or of apiKeyVerified: the old
\* component unmounts, the new one mounts.
commit(S) == mount(unmount(S), Rendered(S))

Flush(S) == IF S.mounted # Rendered(S) THEN commit(S) ELSE S

\* ---------------------------------------------------------------- actions

\* The state once App has rendered mode m, with the key verified or not.
\* dictating: the orb was tapped and the recognition it started has fired
\* onstart.
InitWith(m, verified, dictating) ==
    /\ mode = m
    /\ apiKeyVerified = verified
    /\ mounted = IF verified THEN m ELSE "NONE"
    /\ actionRef = IF verified THEN Handler(m) ELSE "noop"
    /\ orbState = (IF dictating THEN "listening" ELSE "idle")
    /\ errorMsg = "null" /\ timers = 0
    /\ isConnected = FALSE /\ isMuted = FALSE
    /\ inputCtx = FALSE /\ outputCtx = FALSE
    /\ streamRef = 0 /\ procRef = 0 /\ sessRef = 0
    /\ nextStartTime = 0 /\ sources = {}
    /\ recognitionRef = (IF dictating THEN 1 ELSE 0) /\ isMicActive = dictating
    /\ recog = [r \in RecogIds |->
                  IF dictating /\ r = 1 THEN [st |-> "on", owner |-> m, stale |-> FALSE]
                  ELSE NoRecog]
    /\ nRecog = (IF dictating THEN 1 ELSE 0)
    /\ playingMessageId = 0 /\ isAudioLoading = FALSE /\ currentSourceRef = 0
    /\ speech = [k \in SpeechIds |-> NoSpeech] /\ nSpeech = 0
    /\ dismissed = 0 /\ errObs = NoErrObs
    /\ input = <<>> /\ prompt = <<>> /\ heard = NoHeard
    /\ messages = Greeting /\ isLoading = FALSE /\ selectedFile = FALSE
    /\ autoSpeak = TRUE
    /\ send = [k \in SendIds |-> NoSend] /\ nSend = 0 /\ now = Loaded
    /\ pcm = NoSample
    /\ clock = 0
    /\ att = [a \in Attempts |-> NoAttempt] /\ nAtt = 0
    /\ msgs = [i \in MsgIds |-> NoMsg] /\ nMsg = 0
    /\ sched = <<>> /\ epoch = "init" /\ sinceStop = FALSE
    /\ lastTick = NoTick /\ invoked = NoInvoke /\ switchReq = NoSwitchReq
    /\ lastSched = NoSched

InitIn(m, verified) == InitWith(m, verified, FALSE)

\* App starts in Chat mode; verifyKey has found a selected key or none.
Init == \E verified \in BOOLEAN : InitIn("CHAT", verified)

\* the user taps the orb
OrbClick(maxAtt, maxRecog) ==
    /\ mounted # "NONE"
    /\ handleOrbClick(Cur).nAtt <= maxAtt
    /\ handleOrbClick(Cur).nRecog <= maxRecog
    /\ Becomes(handleOrbClick(Cur))

\* the user taps a button of the bottom navigation
NavClick(m) ==
    /\ mounted # "NONE"
    /\ Becomes(Flush(handleModeChange(Cur, m, mounted)))

\* the call button, rendered while !isConnected
CallClick(maxAtt) ==
    /\ mounted = "LIVE" /\ ~isConnected
    /\ nAtt < maxAtt
    /\ Becomes(startSession(Cur))

\* the hang-up button, rendered while isConnected
HangupClick ==
    /\ mounted = "LIVE" /\ isConnected
    /\ Becomes(stopSession(Cur))

\* the mute button, rendered while isConnected
MuteClick ==
    /\ mounted = "LIVE" /\ isConnected
    /\ Becomes([Cur EXCEPT !.isMuted = ~isMuted])

\* handleSelectKey on the key screen
SelectKey ==
    /\ mounted = "NONE"
    /\ Becomes([Cur EXCEPT !.apiKeyVerified = TRUE])

Commit ==
    /\ mounted # Rendered(Cur)
    /\ Becomes(commit(Cur))

\* a re-render of App hands the mounted component a new registerAction, and its
\* effect registers the action again
Reregister ==
    /\ mounted # "NONE" /\ mounted = Rendered(Cur)
    /\ Becomes([Cur EXCEPT !.actionRef = Handler(mounted)])

\* the setTimeout callback of handleError
TimerFire ==
    /\ timers > 0
    /\ Becomes(errorTimeout(Cur))

GumResolve(a) ==
    /\ att[a].pc = "gum"
    /\ Becomes(gumResolved(Cur, a))

GumReject(a, raw) ==
    /\ att[a].pc = "gum"
    /\ Becomes(gumRejected(Cur, a, raw))

ConnectReject(a) ==
    /\ att[a].pc = "connecting"
    /\ Becomes(connectRejected(Cur, a))

Tick(a) ==
    /\ att[a].proc
    /\ Becomes(onaudioprocess(Cur, a))

ChanOpen(a) ==
    /\ att[a].pc = "connecting"
    /\ Becomes(onopen(Cur, a))

ToolCall(a, m) ==
    /\ att[a].pc = "open"
    /\ Becomes(onmessageToolCall(Cur, a, m))

AudioMsg(a, d, maxMsgs) ==
    /\ att[a].pc = "open"
    /\ nMsg < maxMsgs
    /\ Becomes(onmessageAudio(Cur, a, d))

DecodeDone(i, ok) ==
    /\ msgs[i].st = "decoding"
    /\ Becomes(decoded(Cur, i, ok))

Interrupted(a) ==
    /\ att[a].pc = "open"
    /\ Becomes(onmessageInterrupted(Cur, a))

SourceEnded(i) ==
    /\ \/ msgs[i].st = "stopped"
       \/ msgs[i].st = "live" /\ outputCtx /\ clock >= msgs[i].start + msgs[i].dur
    /\ Becomes(onended(Cur, i))

ChanClose(a) ==
    /\ att[a].pc \in {"open", "closing"}
    /\ Becomes(onclose(Cur, a))

ChanError(a, raw) ==
    /\ att[a].pc \in {"connecting", "open"}
    /\ Becomes(onerror(Cur, a, raw))

\* time passes on the output context
AdvanceClock(maxClock) ==
    /\ outputCtx /\ clock < maxClock
    /\ Becomes([Cur EXCEPT !.clock = @ + 1])

RecogStart(r) ==
    /\ recog[r].st = "starting"
    /\ Becomes(recognitionOnstart(Cur, r))

RecogError(r) ==
    /\ recog[r].st \in {"starting", "on"}
    /\ Becomes(recognitionOnerror(Cur, r))

RecogEnd(r) ==
    /\ recog[r].st \in {"starting", "on", "ending", "heard"}
    /\ Becomes(recognitionOnend(Cur, r))

\* the recogniser delivers its one final result, possibly after stop()
RecogResult(r, transcript) ==
    /\ recog[r].st \in {"on", "ending"}
    /\ Becomes(IF recog[r].owner = "CHAT"
               THEN recognitionOnresult(Cur, r, transcript)
               ELSE voiceInputOnresult(Cur, r, transcript))

\* the user submits the text typed into the input field
SubmitClick(text) ==
    /\ mounted = "CHAT"
    /\ nSend < ChatSends
    /\ Becomes(sendMessage(Cur, text))

\* the user picks a file to attach
FilePick ==
    /\ mounted = "CHAT" /\ ~selectedFile
    /\ Becomes([Cur EXCEPT !.selectedFile = TRUE])

\* the Read On / Read Off button
AutoSpeakClick ==
    /\ mounted = "CHAT"
    /\ Becomes([Cur EXCEPT !.autoSpeak = ~@])

\* readAsDataURL completes, with the load event or with the error event
FileRead(k, ok) ==
    /\ send[k].pc = "reading"
    /\ Becomes(IF ok THEN fileRead(Cur, k) ELSE fileReadFailed(Cur, k))

\* generateChatResponseStream resolves or rejects
StreamOpen(k, ok) ==
    /\ send[k].pc = "request"
    /\ Becomes(IF ok THEN streamOpened(Cur, k) ELSE sendFailed(Cur, k))

StreamChunk(k) ==
    /\ send[k].pc = "streaming"
    /\ Len(send[k].fullText) < MaxChunks
    /\ Becomes(streamChunk(Cur, k))

\* the stream ends, or throws
StreamEnd(k, ok, grounded) ==
    /\ send[k].pc = "streaming"
    /\ streamFinished(Cur, k, grounded).nSpeech <= ErrSpeech
    /\ Becomes(IF ok THEN streamFinished(Cur, k, grounded) ELSE sendFailed(Cur, k))

\* a millisecond passes
ClockTick ==
    /\ now < Loaded + ChatClock
    /\ Becomes([Cur EXCEPT !.now = @ + 1])

\* the capture loop pulls a sample: any value of the grid, a little beyond
\* full scale included
Capture(num) ==
    /\ pcm.st \in {"none", "decoded"}
    /\ Becomes([Cur EXCEPT !.pcm = [NoSample EXCEPT !.st = "raw", !.num = num]])

Encode ==
    /\ pcm.st = "raw"
    /\ Becomes([Cur EXCEPT !.pcm.st = "encoded", !.pcm.int16 = encode(pcm.num)])

Decode ==
    /\ pcm.st = "encoded"
    /\ Becomes([Cur EXCEPT !.pcm.st = "decoded", !.pcm.y = decode(pcm.int16)])

\* the read-aloud button of a chat entry
PlayClick(id, maxSpeech) ==
    /\ mounted = "CHAT"
    /\ playTextAsAudio(Cur, id).nSpeech <= maxSpeech
    /\ Becomes(playTextAsAudio(Cur, id))

SpeechResolve(k, ok) ==
    /\ speech[k].pc = "synth"
    /\ Becomes(speechResolved(Cur, k, ok))

AudioDecode(k, ok) ==
    /\ speech[k].pc = "decode"
    /\ Becomes(audioDecoded(Cur, k, ok))

ReadAloudEnded(k) ==
    /\ speech[k].pc \in {"playing", "stopped"}
    /\ Becomes(sourceOnended(Cur, k))

\* ---------------------------------------------------------- specifications

\* Spec: the App orchestrator and the LiveInterface session lifecycle (start,
\* stop, microphone prompt, channel events, errors, mode switches, the key
\* screen).  The mute gate, the audio payloads and dictation are explored by
\* SpecMute, SpecPlay and SpecOrb: they write the mute flag, the playback
\* state, the dictation state and orbState only.
Next ==
    \/ OrbClick(SessionAttempts, 0)
    \/ \E m \in AppMode : NavClick(m)
    \/ CallClick(SessionAttempts)
    \/ HangupClick
    \/ SelectKey
    \/ Commit
    \/ Reregister
    \/ TimerFire
    \/ \E a \in Attempts : GumResolve(a)
    \/ \E a \in Attempts, raw \in SomeMicErrors : GumReject(a, raw)
    \/ \E a \in Attempts : ChanOpen(a)
    \/ \E a \in Attempts, m \in ToolArgs : ToolCall(a, m)
    \/ \E a \in Attempts : Interrupted(a)
    \/ \E a \in Attempts : ChanClose(a)
    \/ \E a \in Attempts, raw \in SomeLiveErrors : ChanError(a, raw)

Spec == Init /\ [][Next]_vars

\* SpecMute: the mute gate of the capture loop, in Live mode.
InitMute == InitIn("LIVE", TRUE)

NextMute ==
    \/ OrbClick(MuteAttempts, 0)
    \/ CallClick(MuteAttempts)
    \/ HangupClick
    \/ MuteClick
    \/ \E a \in Attempts : GumResolve(a)
    \/ \E a \in Attempts : Tick(a)
    \/ \E a \in Attempts : ChanOpen(a)
    \/ \E a \in Attempts : ChanClose(a)

SpecMute == InitMute /\ [][NextMute]_vars

\* SpecPlay: the playback schedule of LiveInterface.  It starts in Live mode
\* (the state after the Live navigation button) and explores sessions, audio
\* payloads, decodes, interruptions, the output clock, stops, restarts and
\* remounts.
InitPlay == InitIn("LIVE", TRUE)

NextPlay ==
    \/ OrbClick(PlayAttempts, 0)
    \/ CallClick(PlayAttempts)
    \/ HangupClick
    \/ \E m \in AppMode : NavClick(m)
    \/ \E a \in Attempts : GumResolve(a)
    \/ \E a \in Attempts : ChanOpen(a)
    \/ \E a \in Attempts, d \in 1..MaxDur : AudioMsg(a, d, PlayMsgs)
    \/ \E i \in MsgIds, ok \in BOOLEAN : DecodeDone(i, ok)
    \/ \E a \in Attempts : Interrupted(a)
    \/ \E i \in MsgIds : SourceEnded(i)
    \/ \E a \in Attempts : ChanClose(a)
    \/ AdvanceClock(PlayClock)

SpecPlay == InitPlay /\ [][NextPlay]_vars

\* SpecQueue: the playback queue of one LiveInterface instance: payloads,
\* decodes, interruptions, the output clock, hang-up and call again.
InitQueue == InitIn("LIVE", TRUE)

NextQueue ==
    \/ CallClick(QueueAttempts)
    \/ HangupClick
    \/ \E a \in Attempts : GumResolve(a)
    \/ \E a \in Attempts : ChanOpen(a)
    \/ \E a \in Attempts, d \in 1..QueueDur : AudioMsg(a, d, QueueMsgs)
    \/ \E i \in MsgIds, ok \in BOOLEAN : DecodeDone(i, ok)
    \/ \E a \in Attempts : Interrupted(a)
    \/ \E i \in MsgIds : SourceEnded(i)
    \/ \E a \in Attempts : ChanClose(a)
    \/ AdvanceClock(QueueClock)

SpecQueue == InitQueue /\ [][NextQueue]_vars

\* SpecOrb: the shared orb action.  Every mode, dictation, the key screen, the
\* error toast and a Live session whose tool call switches the mode.
NextOrb ==
    \/ \E k \in 0..OrbStarts : OrbClick(k, OrbStarts - k)
    \/ \E m \in AppMode : NavClick(m)
    \/ CallClick(OrbStarts - nRecog)
    \/ HangupClick
    \/ SelectKey
    \/ Commit
    \/ Reregister
    \/ TimerFire
    \/ \E a \in Attempts : GumResolve(a)
    \/ \E a \in Attempts, raw \in SomeMicErrors : GumReject(a, raw)
    \/ \E a \in Attempts : ChanOpen(a)
    \/ \E a \in Attempts, m \in ToolArgs : ToolCall(a, m)
    \/ \E a \in Attempts : ChanClose(a)
    \/ \E a \in Attempts, raw \in SomeLiveErrors : ChanError(a, raw)
    \/ \E r \in RecogIds : RecogStart(r)
    \/ \E r \in RecogIds : RecogError(r)
    \/ \E r \in RecogIds : RecogEnd(r)

SpecOrb == Init /\ [][NextOrb]_vars

\* SpecErr: the error toast in Chat mode: read-aloud failures, the timeout,
\* dismissal by the orb, dictation started by the orb.
InitErr == InitIn("CHAT", TRUE)

NextErr ==
    \/ OrbClick(0, ErrRecog)
    \/ \E id \in ReadIds : PlayClick(id, ErrSpeech)
    \/ \E k \in SpeechIds, ok \in BOOLEAN : SpeechResolve(k, ok)
    \/ \E k \in SpeechIds, ok \in BOOLEAN : AudioDecode(k, ok)
    \/ \E k \in SpeechIds : ReadAloudEnded(k)
    \/ TimerFire
    \/ \E r \in RecogIds : RecogStart(r)
    \/ \E r \in RecogIds : RecogError(r)
    \/ \E r \in RecogIds : RecogEnd(r)

SpecErr == InitErr /\ [][NextErr]_vars

\* SpecVoice: dictation in Chat and in the Visualizer, the transcripts it
\* delivers, and mode switches made while a recognition is running.
NextVoice ==
    \/ OrbClick(0, VoiceStarts)
    \/ \E m \in {"CHAT", "IMAGE_GEN"} : NavClick(m)
    \/ Commit
    \/ \E r \in RecogIds : RecogStart(r)
    \/ \E r \in RecogIds, t \in Transcripts : RecogResult(r, t)
    \/ \E r \in RecogIds : RecogError(r)
    \/ \E r \in RecogIds : RecogEnd(r)

SpecVoice == InitErr /\ [][NextVoice]_vars

\* SpecRoute: one transcript and what its handler does with it.  Dictation
\* is running in Chat or in the Visualizer; the user may leave the mode before
\* the transcript arrives.
InitRoute == \E m \in {"CHAT", "IMAGE_GEN"} : InitWith(m, TRUE, TRUE)

NextRoute ==
    \/ \E m \in {"CHAT", "IMAGE_GEN"} : NavClick(m)
    \/ Commit
    \/ \E r \in RecogIds, t \in Transcripts : RecogResult(r, t)
    \/ \E r \in RecogIds : RecogEnd(r)

SpecRoute == InitRoute /\ [][NextRoute]_vars

\* SpecFault: failed starts and faults of a Live session, over every error
\* text, with the key screen that an invalidated key brings up.
NextFault ==
    \/ CallClick(FaultAttempts)
    \/ HangupClick
    \/ SelectKey
    \/ Commit
    \/ TimerFire
    \/ \E a \in Attempts : GumResolve(a)
    \/ \E a \in Attempts, raw \in MicRawErrors : GumReject(a, raw)
    \/ \E a \in Attempts : ConnectReject(a)
    \/ \E a \in Attempts : ChanOpen(a)
    \/ \E a \in Attempts : ChanClose(a)
    \/ \E a \in Attempts, raw \in LiveRawErrors : ChanError(a, raw)

SpecFault == InitMute /\ [][NextFault]_vars

\* SpecChat: the chat transcript.  Messages are sent, with or without an
\* attachment, their responses stream in or fail, and the clock runs.
NextChat ==
    \/ \E text \in {"  ", "hi"} : SubmitClick(text)
    \/ FilePick
    \/ AutoSpeakClick
    \/ \E k \in SendIds, ok \in BOOLEAN : FileRead(k, ok)
    \/ \E k \in SendIds, ok \in BOOLEAN : StreamOpen(k, ok)
    \/ \E k \in SendIds : StreamChunk(k)
    \/ \E k \in SendIds, ok, grounded \in BOOLEAN : StreamEnd(k, ok, grounded)
    \/ ClockTick

SpecChat == InitErr /\ [][NextChat]_vars

\* SpecCodec: one sample after the other is captured, encoded and decoded.
NextCodec ==
    \/ \E num \in -(SampleGrid + 1)..(SampleGrid + 1) : Capture(num)
    \/ Encode
    \/ Decode

SpecCodec == InitMute /\ [][NextCodec]_vars

\* ------------------------------------------------------------------ claims

\* channels opened and not asked to close; microphone streams not released
LiveSessions == {a \in Attempts : att[a].pc \in {"connecting", "open"} /\ ~att[a].closeReq}
Captures == {a \in Attempts : att[a].stream}
\* startSession calls with no stopSession of their instance since
Unstopped == {a \in Attempts : att[a].pc # "unused" /\ ~att[a].stopped}

\* C1: in every reachable state at most one live session (network channel) and
\* at most one microphone capture exist.
C1_SingleSession ==
    /\ Cardinality(LiveSessions) <= 1
    /\ Cardinality(Captures) <= 1

C3_StopReleases == sinceStop => (Captures = {} /\ sources = {})

\* C4: a tick forwards no frame while muted, and forwards one when not muted
\* and a session is there to take it.
C4_MuteGate ==
    lastTick.ticked =>
        /\ lastTick.muted => ~lastTick.forwarded
        /\ (~lastTick.muted /\ lastTick.session) => lastTick.forwarded

\* C5: when the switchMode tool call asks the orchestrator to switch, the
\* microphone is already released and playback already flushed.
C5_TeardownBeforeSwitch ==
    switchReq.issued => (~switchReq.micHeld /\ ~switchReq.playing)

\* C6: a payload that was still decoding when an interruption was handled is
\* never scheduled afterwards.
C6_FlushWins == lastSched.scheduled => lastSched.cut # "flush"

\* C7: after an interruption flush liveSources is empty, and the next buffer
\* enqueued is scheduled at the current output clock time.
C7_FlushResets ==
    /\ (epoch = "flush" /\ sched = <<>>) => (sources = {} /\ ~Playing(St))
    /\ (lastSched.scheduled /\ lastSched.first /\ lastSched.epoch = "flush")
          => lastSched.start = lastSched.at

\* C7 witness: a buffer was enqueued, an interruption flushed the queue, and
\* the next buffer has just been scheduled, later on the output clock.
C7_Witness ==
    /\ lastSched.scheduled /\ lastSched.first /\ lastSched.epoch = "flush"
    /\ lastSched.at >= 1
    /\ nMsg >= 2

\* C8: the first buffer a restarted session enqueues is scheduled at the new
\* output clock's current time.
C8_TeardownResets ==
    (lastSched.scheduled /\ lastSched.first /\ lastSched.epoch = "restart"
        /\ lastSched.cut = "no")
          => lastSched.start = lastSched.at

RECURSIVE SumDur(_, _)
SumDur(q, n) == IF n = 0 THEN 0 ELSE SumDur(q, n - 1) + q[n].dur

\* C9: with no flush or stop in between, no source is scheduled in the past,
\* each starts no earlier than the previous one ends, and the i-th starts no
\* earlier than the first start plus d1 + ... + d(i-1).
C9_Gapless ==
    /\ lastSched.scheduled => lastSched.start >= lastSched.at
    /\ \A i \in 1..Len(sched) :
          /\ i > 1 => sched[i].start >= sched[i - 1].start + sched[i - 1].dur
          /\ sched[i].start >= sched[1].start + SumDur(sched, i - 1)

\* C9 witness: a burst: the second buffer arrived while the first was still
\* playing and was scheduled at the first one's end, after its arrival time.
C9_Witness ==
    /\ Len(sched) >= 2
    /\ lastSched.scheduled /\ lastSched.start > lastSched.at
    /\ sched[Len(sched)].start = lastSched.start

\* C10: the installed action is a no-op or the handler of the current mode; an
\* orb tap invokes nothing else, and invokes nothing at all between a mode
\* switch and the new mode's registration.
C10_ActionOfMode ==
    /\ actionRef \in {"noop", Handler(mode)}
    /\ invoked.h \in {"none", "dismiss", "noop", Handler(invoked.mode)}
    /\ ~invoked.registered => invoked.h \in {"none", "dismiss", "noop"}

\* C10 witness: the orb was tapped after a switch away from Live and before the
\* new mode registered its action, and the tap invoked the no-op.
C10_Witness ==
    /\ invoked.h = "noop" /\ ~invoked.registered
    /\ invoked.mode # "LIVE" /\ mounted = "LIVE"

\* C11: when handleError has run the status is Error and a message is shown;
\* when the timeout set by handleError expires the status is Idle and the
\* message is cleared.  The 5 seconds are the delay before TimerFire.
C11_ErrorShownThenCleared ==
    /\ errObs.ev = "reported" => (errObs.orb = "error" /\ errObs.msg # "null")
    /\ errObs.ev = "expired" => (orbState = "idle" /\ errorMsg = "null")

\* C11 witness: the timeout expired with the error still shown and never
\* dismissed, and cleared it.
C11_Witness ==
    /\ errObs.ev = "expired" /\ ~errObs.late
    /\ errObs.orb = "error" /\ errObs.msg # "null"
    /\ orbState = "idle" /\ errorMsg = "null"

\* C12: once a handler that reported an error has finished, the status is
\* Error.
C12_ErrorAfterReport == errObs.ev = "reported" => orbState = "error"

\* C13: when the timer of an error that was dismissed through the orb expires,
\* nothing changes: the status and the message stay what they were.
C13_DismissedTimerInert ==
    (errObs.ev = "expired" /\ errObs.late)
        => (orbState = errObs.orb /\ errorMsg = errObs.msg)

\* C14: an orb tap made while the status is Error clears the message, sets the
\* status to Idle and calls no handler (no session and no dictation is started
\* or stopped); an orb tap made in any other status calls the installed
\* handler, so the tap that follows a dismissal does: in Chat it starts a
\* dictation or stops the running one.
C14_DismissConsumesOneTap ==
    [][/\ invoked'.h = "dismiss" =>
              /\ orbState = "error"
              /\ errorMsg' = "null" /\ orbState' = "idle"
              /\ nRecog' = nRecog /\ recog' = recog /\ recognitionRef' = recognitionRef
              /\ nAtt' = nAtt /\ att' = att
       /\ invoked'.h \notin {"none", "dismiss"} =>
              /\ orbState # "error"
              /\ invoked'.h = actionRef
              /\ actionRef = "handleMicClick" =>
                    \/ nRecog' = nRecog + 1 /\ recognitionRef' = nRecog'
                    \/ /\ recognitionRef # 0 /\ isMicActive
                       /\ recog'[recognitionRef].st = "ending"
      ]_vars

\* C14 witness: an error was dismissed by an orb tap, and a later tap, made
\* before that error's timer expired, called handleMicClick, which started a
\* dictation.
C14_Witness ==
    /\ dismissed > 0
    /\ invoked.h = "handleMicClick"
    /\ nRecog >= 1 /\ recog[nRecog].st = "starting"

\* the segments that are commands to the component of mode `owner`
CommandSegs(owner) ==
    IF owner = "CHAT"
    THEN {"Switch To Live", "enable live mode", "create image", "Upload Plan"}
    ELSE {"open chat", "Switch To Live", "enable live mode"}
Says(t, segs) == \E i \in 1..Len(t) : t[i] \in segs

\* C15: a transcript that contains a command has the command performed and is
\* not passed on as input; any other transcript has no command performed and
\* is passed on verbatim, to the chat input or the Visualizer prompt.
C15_CommandOrInput ==
    heard.ev =>
        IF Says(heard.t, CommandSegs(heard.owner))
        THEN heard.did # <<>> /\ heard.passed = <<>>
        ELSE /\ heard.did = <<>> /\ heard.passed = <<heard.t>>
             /\ (~heard.stale /\ heard.owner = "CHAT") =>
                    (input # <<>> /\ input[Len(input)] = heard.t)
             /\ (~heard.stale /\ heard.owner = "IMAGE_GEN") => prompt = heard.t

\* C16: whatever the capitalisation, a transcript triggers at most one action,
\* the first its component's table has a phrase for (Chat: Live, Visualizer,
\* file picker of the mounted component; Visualizer: Chat, Live), and a mode
\* switch it requests is the only one and takes effect.
C16_FirstMatchWins ==
    heard.ev =>
        /\ Len(heard.did) <= 1
        /\ heard.did # <<>> /\ heard.did[1] \in AppMode => mode = heard.did[1]
        /\ heard.owner = "CHAT" =>
              LET live == Says(heard.t, {"Switch To Live", "enable live mode"})
                  visualizer == Says(heard.t, {"create image"})
                  upload == Says(heard.t, {"Upload Plan"})
              IN /\ live => heard.did = <<"LIVE">>
                 /\ (~live /\ visualizer) => heard.did = <<"IMAGE_GEN">>
                 /\ (~live /\ ~visualizer /\ upload /\ ~heard.stale)
                        => heard.did = <<"picker">>
        /\ heard.owner = "IMAGE_GEN" =>
              LET chat == Says(heard.t, {"open chat"})
                  live == Says(heard.t, {"Switch To Live", "enable live mode"})
              IN /\ chat => heard.did = <<"CHAT">>
                 /\ (~chat /\ live) => heard.did = <<"LIVE">>

\* C16 witness: in Chat a transcript named the Visualizer command and then,
\* capitalised, the Live command; Live, first in the table, was performed.
C16_Witness ==
    /\ heard.ev /\ heard.owner = "CHAT"
    /\ heard.t = <<"create image", "Switch To Live">>
    /\ heard.did = <<"LIVE">> /\ mode = "LIVE"

\* C17: in every state, stopSession called twice in succession leaves what
\* stopSession called once leaves: the session, stream and processor refs, the
\* contexts, liveSources, the connected flag, OrbState and all the rest.
C17_StopIdempotent == stopSession(stopSession(St)) = stopSession(St)

\* C17 witness: stopSession has just torn down a connected session that had
\* its channel open, its microphone held and a source playing, and a second
\* call would find nothing left to change.
C17_Witness ==
    /\ epoch = "stop" /\ ~isConnected /\ sources = {}
    /\ \E a \in Attempts : att[a].pc = "closing" /\ att[a].stopped /\ ~att[a].stream
    /\ \E i \in MsgIds : msgs[i].st = "stopped"
    /\ stopSession(St) = St

\* the mounted LiveInterface holds no session, stream, processor, context or
\* source and shows itself disconnected
SessionIdle ==
    /\ mounted = "LIVE" /\ ~isConnected
    /\ sessRef = 0 /\ streamRef = 0 /\ procRef = 0
    /\ ~inputCtx /\ ~outputCtx /\ sources = {}

\* C18: when the close event of a channel makes the mounted LiveInterface call
\* stopSession while its session is already Idle, the call changes nothing:
\* not OrbState, not the error message, not the mode, not a ref.
C18_StopWhileIdleNoOp ==
    [][(/\ SessionIdle
        /\ \E a \in Attempts :
              ~att[a].stale /\ att[a].pc = "closing" /\ att'[a].pc = "closed")
          => /\ orbState' = orbState /\ errorMsg' = errorMsg /\ mode' = mode
             /\ isConnected' = isConnected /\ sessRef' = sessRef
             /\ streamRef' = streamRef /\ procRef' = procRef /\ sources' = sources
      ]_vars

\* C19: while a startSession call that was not stopped is still before its
\* channel's open event (awaiting the microphone, or connecting), it holds no
\* microphone stream, no processor produces frames for it, and the session is
\* shown neither connected nor listening.
C19_ActiveOnlyAfterOpen ==
    \A a \in Attempts :
        (att[a].pc \in {"gum", "connecting"} /\ ~att[a].stopped /\ ~att[a].stale)
            => /\ ~att[a].stream /\ ~att[a].proc
               /\ ~isConnected /\ orbState # "listening"

\* C20: an interruption or a tool call that a channel delivers after
\* stopSession was called for its session, while no session is shown
\* connected, changes neither OrbState, nor the playback state, nor the mode.
C20_EventsOnlyWhileActive ==
    [][\A a \in Attempts :
          (/\ att[a].stopped /\ ~att[a].stale /\ ~isConnected
           /\ (Interrupted(a) \/ \E m \in ToolArgs : ToolCall(a, m)))
             => /\ orbState' = orbState /\ mode' = mode
                /\ sources' = sources /\ nextStartTime' = nextStartTime
      ]_vars

\* C21: while the session is connected, OrbState is Speaking whenever
\* liveSources is not empty.
C21_SpeakingWhileSources ==
    (mounted = "LIVE" /\ isConnected /\ sources # {}) => orbState = "speaking"

\* C22: once stopSession has returned and until startSession is called again,
\* OrbState is Idle when the 'ended' event of a source that was stopped is
\* delivered, and the event leaves it Idle.
C22_EndedAfterStopInert ==
    [][\A i \in MsgIds :
          (sinceStop /\ msgs[i].st = "stopped" /\ SourceEnded(i))
             => (orbState = "idle" /\ orbState' = "idle")
      ]_vars

\* the error texts that carry a signal of the PermissionDenied category
PermissionSignals ==
    {"403", "PERMISSION_DENIED", "The caller does not have permission",
     "Requested entity was not found"}

\* C23: when the channel reports an error while the key is verified, the
\* report clears apiKeyVerified if and only if the error text carries a
\* PermissionDenied signal.
C23_FlagClearedIffPermission ==
    [][\A a \in Attempts, raw \in LiveRawErrors :
          (apiKeyVerified /\ ChanError(a, raw))
             => (~apiKeyVerified' <=> raw \in PermissionSignals)
      ]_vars

\* the texts of getUserMedia failures: permission denied, no input device
MicDeniedErrors == {"NotAllowedError", "Permission denied", DeniedByUserAgent}
NoDeviceErrors ==
    {"NotFoundError", "Requested device not found", "The object can not be found here."}

\* C24: when getUserMedia fails because permission is denied or no input
\* device exists, the error reported is the microphone message of that cause,
\* and apiKeyVerified is left as it was.
C24_MicrophoneMessage ==
    [][\A a \in Attempts, raw \in MicDeniedErrors \cup NoDeviceErrors :
          GumReject(a, raw)
             => /\ errObs'.ev = "reported"
                /\ raw \in MicDeniedErrors => errObs'.msg = MsgMicDenied
                /\ raw \in NoDeviceErrors => errObs'.msg = MsgMicNotFound
                /\ apiKeyVerified' = apiKeyVerified
      ]_vars

\* C25: when a start fails (getUserMedia rejects, the connect promise
\* rejects) or the channel reports an error, the handler reports the error and
\* leaves the session Idle: not connected, no microphone stream held, no
\* channel open or opening, so that the next tap starts a session.
C25_FaultEndsSession ==
    [][\A a \in Attempts :
          (/\ mounted = "LIVE" /\ ~att[a].stale
           /\ \/ \E raw \in MicRawErrors : GumReject(a, raw)
              \/ ConnectReject(a)
              \/ \E raw \in LiveRawErrors : ChanError(a, raw))
             => /\ errObs'.ev = "reported"
                /\ ~isConnected'
                /\ \A b \in Attempts :
                      /\ ~att'[b].stream
                      /\ ~(att'[b].pc \in {"connecting", "open"} /\ ~att'[b].closeReq)
      ]_vars

\* C26: a mode switch whose target is the mode the app is in (and has
\* rendered) changes nothing: mode, orb state and the registered action stay
\* as they are.  The switch is asked for by a nav button or by a voice command.
C26_SameModeNoOp ==
    [][\A m \in AppMode :
          (/\ m = mode /\ mounted = mode
           /\ \/ NavClick(m)
              \/ /\ \E r \in RecogIds, t \in Transcripts : RecogResult(r, t)
                 /\ heard'.did = <<m>>)
             => (mode' = mode /\ orbState' = orbState /\ actionRef' = actionRef)
      ]_vars

\* C27: once the mode has been switched and the new mode is rendered, the
\* callbacks of a recognition started in the mode that was left (its start,
\* its result, its end) change neither the orb state, nor the mode, nor the registered
\* action.
C27_OldModeCallbacksInert ==
    [][\A r \in RecogIds :
          (/\ recog[r].stale /\ recog[r].owner # mode /\ mounted = mode
           /\ \/ RecogStart(r)
              \/ RecogEnd(r)
              \/ \E t \in Transcripts : RecogResult(r, t))
             => (orbState' = orbState /\ mode' = mode /\ actionRef' = actionRef)
      ]_vars

\* position of the last assistant entry; the sends whose stream is running
LastModel(list) ==
    CHOOSE i \in 1..Len(list) :
        /\ list[i].role = "model"
        /\ \A j \in 1..Len(list) : list[j].role = "model" => j <= i
Streaming == {k \in SendIds : send[k].pc = "streaming" /\ ~send[k].stale}

\* C28: the transcript of the mounted Chat is append-only: a step removes
\* and reorders no entry, an entry it changes is the last assistant entry,
\* and the stream that filled that entry is still running.
C28_TranscriptAppendOnly ==
    [][(mounted = "CHAT" /\ mounted' = "CHAT") =>
          /\ Len(messages') >= Len(messages)
          /\ \A i \in 1..Len(messages) :
                /\ messages'[i].id = messages[i].id
                /\ messages'[i].role = messages[i].role
                /\ messages'[i] # messages[i] =>
                      /\ i = LastModel(messages)
                      /\ \E k \in Streaming : send[k].modelMsgId = messages[i].id
      ]_vars

\* C29: no two entries of the transcript have the same id.
C29_UniqueIds ==
    \A i, j \in 1..Len(messages) : messages[i].id = messages[j].id => i = j

\* C30: payloads are numbered in arrival order; of two payloads that are
\* both scheduled and playing, the one that arrived first does not start
\* later than the other.
C30_ArrivalOrder ==
    \A i, j \in MsgIds :
        (i < j /\ msgs[i].st = "live" /\ msgs[j].st = "live")
            => msgs[i].start <= msgs[j].start

\* C31: when the close event of a channel of the mounted LiveInterface is
\* delivered, the session is stopped: no microphone stream is held, no source
\* is scheduled, the session reference is cleared, the connected flag is false
\* and the orb is idle.
C31_CloseStopsSession ==
    [][\A a \in Attempts :
          (mounted = "LIVE" /\ ~att[a].stale /\ ChanClose(a))
             => /\ \A b \in Attempts : ~att'[b].stream
                /\ streamRef' = 0 /\ sessRef' = 0
                /\ sources' = {} /\ \A i \in MsgIds : msgs'[i].st # "live"
                /\ ~isConnected' /\ orbState' = "idle"
      ]_vars

\* C32: once the session is idle (not connected) and no startSession call
\* has a callback pending (no permission prompt open, no channel opening or
\* closing), nothing a startSession acquired is still held: no microphone
\* stream, no running processor, no open channel, no audio context.
C32_ReleasedWhenQuiet ==
    (/\ ~isConnected
     /\ \A a \in Attempts : att[a].pc \notin {"gum", "connecting", "closing"})
        => /\ \A a \in Attempts : ~att[a].stream /\ ~att[a].proc /\ att[a].pc # "open"
           /\ ~inputCtx /\ ~outputCtx

\* C33: a sample x in [-1, 1] that went through encode and decode comes out
\* as y with |y - x| <= 1/32768.
C33_RoundTrip ==
    LET d == pcm.y.num * SampleGrid - pcm.num * pcm.y.den
        abs == IF d < 0 THEN -d ELSE d
    IN (pcm.st = "decoded" /\ pcm.num \in -SampleGrid..SampleGrid)
          => abs * 32768 <= pcm.y.den * SampleGrid

\* C34: a callback of a session that stopSession was called for (its open,
\* a message, its close, its error) leaves a session started afterwards as it
\* is: microphone, processor, playback, session reference, connected flag,
\* orb state, and no error reported.
C34_LateCallbacksInert ==
    [][\A a \in Attempts :
          (/\ mounted = "LIVE" /\ a < nAtt /\ nAtt \in Attempts
           /\ att[a].stopped /\ ~att[nAtt].stopped /\ isConnected
           /\ \/ ChanOpen(a) \/ ChanClose(a) \/ Interrupted(a)
              \/ \E m \in ToolArgs : ToolCall(a, m)
              \/ \E raw \in SomeLiveErrors : ChanError(a, raw))
             => /\ att'[nAtt].stream = att[nAtt].stream
                /\ att'[nAtt].proc = att[nAtt].proc
                /\ streamRef' = streamRef /\ sessRef' = sessRef
                /\ sources' = sources /\ nextStartTime' = nextStartTime
                /\ isConnected' /\ orbState' = orbState
                /\ errObs'.ev # "reported"
      ]_vars

\* C35: no frame is sent on the channel of a session after stopSession was
\* called for that session.
C35_NoFrameAfterStop == \A a \in Attempts : ~att[a].lateFrame

\* C36: timers expire oldest first.  When a timer expires while a later
\* error's timer is still pending and the user has dismissed nothing, the
\* error shown is the later one, and it stays: orb state and message are
\* left as they are.
C36_SecondErrorKeepsItsTimeout ==
    [][(TimerFire /\ timers >= 2 /\ dismissed = 0 /\ orbState = "error")
          => (orbState' = "error" /\ errorMsg' = errorMsg)]_vars

\* C37: a read-aloud source of the mounted Chat that is playing is the one
\* currentSourceRef holds; so at most one plays and stopAudio stops it.
C37_PlayingIsCurrent ==
    \A k \in SpeechIds :
        (speech[k].pc = "playing" /\ ~speech[k].stale) => currentSourceRef = k

\* C38: a switchMode tool call delivered to the mounted LiveInterface tears
\* the session down whatever its argument: the channel it arrived on is open
\* no longer, no microphone stream is held, nothing plays, the connected flag
\* is false.  The mode becomes the argument when that is CHAT or IMAGE_GEN and
\* stays as it is otherwise.
C38_ToolCallSwitches ==
    [][\A a \in Attempts, m \in ToolArgs :
          (mode = "LIVE" /\ mounted = "LIVE" /\ ~att[a].stale /\ ToolCall(a, m))
             => /\ att'[a].pc # "open"
                /\ \A b \in Attempts : ~att'[b].stream
                /\ sessRef' = 0 /\ sources' = {} /\ ~isConnected'
                /\ mode' = IF m \in {"CHAT", "IMAGE_GEN"} THEN m ELSE "LIVE"
      ]_vars

\* C39: every sendMessage that passed its guard finishes: once no call awaits
\* its file, its request or its stream any more and no read-aloud is being
\* prepared, the loading flag is false and the orb is not thinking.
C39_SendFinishes ==
    (/\ mounted = "CHAT"
     /\ \A k \in SendIds : send[k].pc \notin {"reading", "request", "streaming"}
     /\ \A s \in SpeechIds : speech[s].pc \notin {"synth", "decode"})
        => (~isLoading /\ orbState # "thinking")

====
